---- MODULE Spec2Model ----
(***************************************************************************)
(* openmod-features: the schema generator (schema/schema_generator.py)     *)
(* and the batch validator (.pre-commit-hooks/validate-yaml-schemas.py).   *)
(*                                                                         *)
(* Spec         the batch validator: main() looping over the documents,    *)
(*              validate_yaml_file() step by step, the lru_cache of        *)
(*              download_schema() and the network behind it.               *)
(* SpecCompile  the schema generator: a catalog is compiled into the tool  *)
(*              and use-case schemas and templates, and candidate          *)
(*              documents are validated against a compiled schema.         *)
(***************************************************************************)
EXTENDS Integers, Sequences, FiniteSets, TLC

(***************************************************************************)
(* Bounds of the model.                                                    *)
(***************************************************************************)
\* Largest number of groups of a catalog (FEATURES).
MaxGroups == 2
\* Largest number of members of one group.
MaxMembers == 2
\* Largest number of documents of one batch run.
MaxFiles == 2

(***************************************************************************)
(* Program constants.                                                      *)
(***************************************************************************)
\* HttpsUrl: UrlConstraints(max_length=2083, ...)
UrlMaxLength == 2083
\* @functools.lru_cache(maxsize=32)
CacheMaxSize == 32

(***************************************************************************)
(* Decoded values (what yaml.safe_load returns, what model_dump returns).  *)
(* A string carries its text and its length; an object keeps its pairs in  *)
(* insertion order, as a Python dict does.                                 *)
(***************************************************************************)
VStr(s, n) == [t |-> "str", s |-> s, n |-> n]
VS(s) == VStr(s, Len(s))
VBool(b) == [t |-> "bool", b |-> b]
VInt(i) == [t |-> "int", i |-> i]
VArr(items) == [t |-> "array", items |-> items]
VObj(pairs) == [t |-> "object", pairs |-> pairs]

Keys(obj) == [i \in 1..Len(obj.pairs) |-> obj.pairs[i][1]]
KeySet(obj) == {obj.pairs[i][1] : i \in 1..Len(obj.pairs)}
HasKey(obj, k) == k \in KeySet(obj)
\* obj[k]; a Python dict built from repeated keys keeps the last value.
Get(obj, k) ==
    LET i == CHOOSE j \in 1..Len(obj.pairs) :
                 /\ obj.pairs[j][1] = k
                 /\ \A h \in (j+1)..Len(obj.pairs) : obj.pairs[h][1] # k
    IN obj.pairs[i][2]

(***************************************************************************)
(* Names.  A catalog of the model names its groups g1, g2, ... and the     *)
(* members of a group f1, f2, ...; gX, fX, extra and note are names no     *)
(* catalog declares.                                                       *)
(***************************************************************************)
GroupName(i) == "g" \o ToString(i)
FeatureName(i) == "f" \o ToString(i)

\* Every key in Python's string order, the order yaml.safe_dump writes keys in.
KeyOrder ==
    <<"assumptions", "description", "extra">>
    \o [i \in 1..(MaxMembers + 1) |-> FeatureName(i)]
    \o <<"fX", "features">>
    \o [i \in 1..(MaxGroups + 1) |-> GroupName(i)]
    \o <<"gX", "members", "note", "source", "value">>

\* sorted(pairs): the pairs of a mapping in key order.
SortPairs(pairs) ==
    LET present == SelectSeq(KeyOrder,
                       LAMBDA k : \E i \in 1..Len(pairs) : pairs[i][1] = k)
    IN [j \in 1..Len(present) |->
           LET i == CHOOSE h \in 1..Len(pairs) :
                        /\ pairs[h][1] = present[j]
                        /\ \A m \in (h+1)..Len(pairs) : pairs[m][1] # present[j]
           IN pairs[i]]

(***************************************************************************)
(* The feature catalog, FEATURES: the decoded features.yaml, a mapping     *)
(* from group name to {description, members}.                              *)
(***************************************************************************)
\* One group with m members; missing names a key the group leaves out.
GroupInfo(m, missing) ==
    VObj(SelectSeq(
        << <<"description", VS("d")>>,
           <<"members", VObj([i \in 1..m |-> <<FeatureName(i), VS("d")>>])>> >>,
        LAMBDA p : p[1] # missing))

GroupShapes ==
    {[m |-> m, missing |-> x] : m \in 0..MaxMembers, x \in {"", "description"}}
    \cup {[m |-> 0, missing |-> "members"]}

\* The catalogs of the model: up to MaxGroups groups, each of some shape.
Catalogs ==
    UNION {{VObj([i \in 1..n |-> <<GroupName(i), GroupInfo(sh[i].m, sh[i].missing)>>])
              : sh \in [1..n -> GroupShapes]} : n \in 0..MaxGroups}

WellFormed(cat) ==
    \A i \in 1..Len(cat.pairs) :
        HasKey(cat.pairs[i][2], "members") /\ HasKey(cat.pairs[i][2], "description")

(***************************************************************************)
(* JSON schemas, as model_json_schema() builds them.  A keyword that is    *)
(* absent holds the value it has in NoKeywords.                            *)
(***************************************************************************)
NoKeywords ==
    [ref |-> "", type |-> "", enum |-> <<>>, properties |-> <<>>,
     additionalProperties |-> TRUE, items |-> <<>>, minLength |-> -1,
     maxLength |-> -1, format |-> "", default |-> <<>>]

\* HttpsUrl = Annotated[Url, UrlConstraints(max_length=2083,
\* allowed_schemes=["https"])]: the JSON schema of a Url is a string of
\* format uri, at least one character long, with the maximal length; the
\* allowed schemes are a constraint of the pydantic model only and have no
\* JSON-schema keyword.
HttpsUrl ==
    [NoKeywords EXCEPT !.type = "string", !.format = "uri",
                       !.minLength = 1, !.maxLength = UrlMaxLength]

\* class AssumptionsModel(RootModel): root: list[str]
AssumptionsModel ==
    [NoKeywords EXCEPT !.type = "array",
                       !.items = <<[NoKeywords EXCEPT !.type = "string"]>>]

\* The use-case record given the tool record's value literals.
UseCaseFeatureModel_WithDev ==
    [NoKeywords EXCEPT
        !.type = "object", !.additionalProperties = FALSE,
        !.properties =
            << <<"value", [NoKeywords EXCEPT !.type = "string",
                              !.enum = <<"y", "n", "dev", "?">>,
                              !.default = <<VS("?")>>]>> >>]

\* class UseCaseFeatureModel: extra forbid; value: Literal["y", "n", "?"] = "?"
UseCaseFeatureModel ==
    [NoKeywords EXCEPT
        !.type = "object", !.additionalProperties = FALSE,
        !.properties =
            << <<"value", [NoKeywords EXCEPT !.type = "string",
                              !.enum = <<"y", "n", "?">>,
                              !.default = <<VS("?")>>]>> >>]

\* class ToolFeatureModel: extra forbid; value: Literal["y", "n", "dev", "?"]
\* = "?"; source: list[HttpsUrl] = []
ToolFeatureModel ==
    [NoKeywords EXCEPT
        !.type = "object", !.additionalProperties = FALSE,
        !.properties =
            << <<"value", [NoKeywords EXCEPT !.type = "string",
                              !.enum = <<"y", "n", "dev", "?">>,
                              !.default = <<VS("?")>>]>>,
               <<"source", [NoKeywords EXCEPT !.type = "array",
                               !.items = <<HttpsUrl>>]>> >>]

RecordKinds == {"tool", "use-case"}
FeatureModelOf(kind) ==
    IF kind = "tool" THEN ToolFeatureModel ELSE UseCaseFeatureModel
FeatureModelName(kind) ==
    IF kind = "tool" THEN "ToolFeatureModel" ELSE "UseCaseFeatureModel"

\* feature_model(): an instance with every field at its default.
FeatureDefault(kind) ==
    IF kind = "tool"
    THEN VObj(<< <<"value", VS("?")>>, <<"source", VArr(<<>>)>> >>)
    ELSE VObj(<< <<"value", VS("?")>> >>)

\* grp.replace("_", " ").title().replace(" ", "") + "Model"
GroupModelName(grp) ==
    LET i == CHOOSE j \in 1..(MaxGroups + 1) : GroupName(j) = grp
    IN "G" \o ToString(i) \o "Model"

(***************************************************************************)
(* create_feature_model, dump_tool_schema, dump_use_case_schema.           *)
(* A compiled model is its JSON schema (root and $defs) and its default    *)
(* instance; error is "KeyError" when the catalog lacks a key the          *)
(* compiler reads.                                                         *)
(***************************************************************************)
Members(grp_info) == Get(grp_info, "members").pairs

\* group_model(): every member at the default of the record kind.
GroupDefault(grp_info, kind) ==
    VObj([i \in 1..Len(Members(grp_info)) |->
             <<Members(grp_info)[i][1], FeatureDefault(kind)>>])

\* The group model built without the last member of the group.
GroupModel_DropsLastMember(grp_info, kind) ==
    [NoKeywords EXCEPT
        !.type = "object", !.additionalProperties = FALSE,
        !.properties =
            [i \in 1..(Len(Members(grp_info)) - 1) |->
                <<Members(grp_info)[i][1],
                  [NoKeywords EXCEPT !.ref = FeatureModelName(kind),
                                     !.default = <<FeatureDefault(kind)>>]>>]]

\* create_model(<group name>, __config__={"extra": "forbid"}, **member_model)
GroupModel(grp_info, kind) ==
    [NoKeywords EXCEPT
        !.type = "object", !.additionalProperties = FALSE,
        !.properties =
            [i \in 1..Len(Members(grp_info)) |->
                <<Members(grp_info)[i][1],
                  [NoKeywords EXCEPT !.ref = FeatureModelName(kind),
                                     !.default = <<FeatureDefault(kind)>>]>>]]

\* feature_set(): every group at its default.
FeatureSetDefault(cat, kind) ==
    VObj([i \in 1..Len(cat.pairs) |->
             <<cat.pairs[i][1], GroupDefault(cat.pairs[i][2], kind)>>])

\* create_model("FeatureSetModel", **feature_models): no __config__, so the
\* model keeps pydantic's default extra="ignore" and its JSON schema has no
\* additionalProperties keyword.
FeatureSetModel(cat, kind) ==
    [NoKeywords EXCEPT
        !.type = "object",
        !.properties =
            [i \in 1..Len(cat.pairs) |->
                <<cat.pairs[i][1],
                  [NoKeywords EXCEPT
                      !.ref = GroupModelName(cat.pairs[i][1]),
                      !.default = <<GroupDefault(cat.pairs[i][2], kind)>>]>>]]

\* The $defs of a compiled schema: model_json_schema() emits the
\* definitions that are referenced, so the record model is there only when
\* some group has a member.
DefNames(cat, kind) ==
    {"FeatureSetModel"}
    \cup (IF \E i \in 1..Len(cat.pairs) : Members(cat.pairs[i][2]) # <<>>
          THEN {FeatureModelName(kind)} ELSE {})
    \cup {GroupModelName(cat.pairs[i][1]) : i \in 1..Len(cat.pairs)}
    \cup (IF kind = "use-case" THEN {"AssumptionsModel"} ELSE {})

Defs(cat, kind) ==
    [name \in DefNames(cat, kind) |->
        IF name = "FeatureSetModel" THEN FeatureSetModel(cat, kind)
        ELSE IF name = FeatureModelName(kind) THEN FeatureModelOf(kind)
        ELSE IF name = "AssumptionsModel" THEN AssumptionsModel
        ELSE LET i == CHOOSE j \in 1..Len(cat.pairs) :
                          GroupModelName(cat.pairs[j][1]) = name
             IN GroupModel(cat.pairs[i][2], kind)]

\* for grp, grp_info in FEATURES.items(): grp_info["members"] and
\* grp_info["description"] raise KeyError when the key is missing.
create_feature_model(cat, kind) ==
    IF ~WellFormed(cat)
    THEN [error |-> "KeyError"]
    ELSE [error |-> "",
          root |-> [NoKeywords EXCEPT !.ref = "FeatureSetModel"],
          defs |-> Defs(cat, kind),
          default |-> FeatureSetDefault(cat, kind)]

\* create_model("ToolFeatureModel", extra forbid, features=(feature set,
\* default feature_list_schema()))
ToolDocumentModel(cat) ==
    LET fs == create_feature_model(cat, "tool") IN
    IF fs.error # "" THEN fs
    ELSE [error |-> "",
          root |-> [NoKeywords EXCEPT
                       !.type = "object", !.additionalProperties = FALSE,
                       !.properties =
                           << <<"features",
                                [fs.root EXCEPT !.default = <<fs.default>>]>> >>],
          defs |-> fs.defs,
          default |-> VObj(<< <<"features", fs.default>> >>)]

\* create_model("UseCaseFeatureModel", extra forbid, assumptions=(...),
\* features=(...))
UseCaseDocumentModel(cat) ==
    LET fs == create_feature_model(cat, "use-case") IN
    IF fs.error # "" THEN fs
    ELSE [error |-> "",
          root |-> [NoKeywords EXCEPT
                       !.type = "object", !.additionalProperties = FALSE,
                       !.properties =
                           << <<"assumptions",
                                [NoKeywords EXCEPT !.ref = "AssumptionsModel",
                                                   !.default = <<VArr(<<>>)>>]>>,
                              <<"features",
                                [fs.root EXCEPT !.default = <<fs.default>>]>> >>],
          defs |-> fs.defs,
          default |-> VObj(<< <<"assumptions", VArr(<<>>)>>,
                              <<"features", fs.default>> >>)]

DocumentModel(cat, kind) ==
    IF kind = "tool" THEN ToolDocumentModel(cat) ELSE UseCaseDocumentModel(cat)

(***************************************************************************)
(* YAML.  A text is modelled by its node tree: a scalar has a style and    *)
(* a text, a mapping keeps its pairs in the order they are written.        *)
(* "garbage" is a text the parser rejects, "empty" a text with no node.    *)
(***************************************************************************)
NScalar(style, text, n) == [t |-> "scalar", style |-> style, text |-> text, n |-> n]
NSeq(items) == [t |-> "seq", items |-> items]
NMap(pairs) == [t |-> "map", pairs |-> pairs]
NGarbage == [t |-> "garbage"]
NEmpty == [t |-> "empty"]
VNull == [t |-> "null"]

\* Plain scalars the resolver reads as something other than a string.
PlainBools == {"yes", "no", "true", "false", "on", "off"}
PlainInts == {ToString(i) : i \in 0..9}
PlainNulls == {"", "~", "null"}
\* A plain scalar that is an indicator: the parser rejects it as a value.
PlainIndicators == {"?"}

\* The emitter writing every string plain, "?" included.
StyleOf_AlwaysPlain(text) == "plain"

\* The style the emitter chooses for a string: plain unless the plain
\* scalar would not be read back as the same string.
StyleOf(text) ==
    IF text \in PlainBools \cup PlainInts \cup PlainNulls \cup PlainIndicators
    THEN "quoted" ELSE "plain"

RECURSIVE safe_dump(_)
\* yaml.safe_dump(value): keys sorted (sort_keys defaults to True).
safe_dump(v) ==
    CASE v.t = "str" -> NScalar(StyleOf(v.s), v.s, v.n)
      [] v.t = "bool" -> NScalar("plain", IF v.b THEN "true" ELSE "false", 0)
      [] v.t = "int" -> NScalar("plain", ToString(v.i), 1)
      [] v.t = "null" -> NScalar("plain", "null", 4)
      [] v.t = "array" -> NSeq([i \in 1..Len(v.items) |-> safe_dump(v.items[i])])
      [] v.t = "object" ->
            LET sorted == SortPairs(v.pairs)
            IN NMap([i \in 1..Len(sorted) |->
                        <<sorted[i][1], safe_dump(sorted[i][2])>>])

RECURSIVE Decodable(_)
\* Whether yaml.safe_load accepts the text.
Decodable(node) ==
    CASE node.t = "garbage" -> FALSE
      [] node.t = "empty" -> TRUE
      [] node.t = "scalar" ->
            ~(node.style = "plain" /\ node.text \in PlainIndicators)
      [] node.t = "seq" -> \A i \in 1..Len(node.items) : Decodable(node.items[i])
      [] node.t = "map" -> \A i \in 1..Len(node.pairs) : Decodable(node.pairs[i][2])

\* d[key] = value on the pairs of a dict: a key already present keeps its
\* place and takes the new value.
SetItem(pairs, key, value) ==
    IF \E i \in 1..Len(pairs) : pairs[i][1] = key
    THEN [i \in 1..Len(pairs) |->
             IF pairs[i][1] = key THEN <<key, value>> ELSE pairs[i]]
    ELSE Append(pairs, <<key, value>>)

RECURSIVE safe_load(_)
RECURSIVE ConstructMapping(_, _, _)
\* The dict the loader builds from the pairs of a mapping node, one
\* assignment per pair: a repeated key is no error, its last value stays.
ConstructMapping(node_pairs, i, acc) ==
    IF i > Len(node_pairs) THEN acc
    ELSE ConstructMapping(node_pairs, i + 1,
             SetItem(acc, node_pairs[i][1], safe_load(node_pairs[i][2])))

\* yaml.safe_load(text), for a text it accepts.
safe_load(node) ==
    CASE node.t = "empty" -> VNull
      [] node.t = "scalar" ->
            IF node.style = "quoted" THEN VStr(node.text, node.n)
            ELSE IF node.text \in PlainBools
                 THEN VBool(node.text \in {"yes", "true", "on"})
            ELSE IF node.text \in PlainInts
                 THEN VInt(CHOOSE i \in 0..9 : ToString(i) = node.text)
            ELSE IF node.text \in PlainNulls THEN VNull
            ELSE VStr(node.text, node.n)
      [] node.t = "seq" -> VArr([i \in 1..Len(node.items) |-> safe_load(node.items[i])])
      [] node.t = "map" -> VObj(ConstructMapping(node.pairs, 1, <<>>))

(***************************************************************************)
(* The texts of features.yaml: every catalog of the model written out, and *)
(* texts that declare a group or a member twice.                           *)
(***************************************************************************)
\* g1 declared twice, first without members and then with one.
RepeatedGroupText ==
    NMap(<< <<GroupName(1), safe_dump(GroupInfo(0, ""))>>,
            <<GroupName(1), safe_dump(GroupInfo(1, ""))>> >>)

\* f1 declared twice in the members of g1.
RepeatedMemberText ==
    NMap(<< <<GroupName(1),
              NMap(<< <<"description", NScalar("plain", "d", 1)>>,
                      <<"members",
                        NMap(<< <<FeatureName(1), NScalar("plain", "d", 1)>>,
                                <<FeatureName(1), NScalar("plain", "e", 1)>> >>)>>
                   >>)>> >>)

CatalogTexts ==
    {safe_dump(cat) : cat \in Catalogs} \cup {RepeatedGroupText, RepeatedMemberText}

(***************************************************************************)
(* jsonschema.Draft202012Validator(schema).iter_errors(data), for the      *)
(* keywords the compiled schemas use.  The validator is built without a    *)
(* format checker, so "format" asserts nothing.  Keywords are visited in   *)
(* the order of the loaded schema, which yaml.safe_dump wrote sorted.      *)
(***************************************************************************)
RECURSIVE ConcatAll(_)
ConcatAll(ss) == IF ss = <<>> THEN <<>> ELSE Head(ss) \o ConcatAll(Tail(ss))

ValidationError(path, validator, extras) ==
    [path |-> path, validator |-> validator, extras |-> extras]

IsType(inst, type) ==
    CASE type = "object" -> inst.t = "object"
      [] type = "array" -> inst.t = "array"
      [] type = "string" -> inst.t = "str"
      [] OTHER -> TRUE

\* The keys of the instance that the schema's properties do not declare.
AdditionalKeys(sch, inst) ==
    SelectSeq(Keys(inst),
              LAMBDA k : \A i \in 1..Len(sch.properties) : sch.properties[i][1] # k)

RECURSIVE iter_errors(_, _, _, _)
iter_errors(defs, sch, inst, path) ==
    \* $ref
    (IF sch.ref # "" THEN iter_errors(defs, defs[sch.ref], inst, path) ELSE <<>>)
    \* additionalProperties: one error for the object, at the object's path
    \o (IF inst.t = "object" /\ ~sch.additionalProperties
           /\ AdditionalKeys(sch, inst) # <<>>
        THEN <<ValidationError(path, "additionalProperties", AdditionalKeys(sch, inst))>>
        ELSE <<>>)
    \* enum
    \o (IF sch.enum # <<>>
           /\ ~(inst.t = "str" /\ \E i \in 1..Len(sch.enum) : sch.enum[i] = inst.s)
        THEN <<ValidationError(path, "enum", <<>>)>> ELSE <<>>)
    \* items
    \o (IF inst.t = "array" /\ sch.items # <<>>
        THEN ConcatAll([i \in 1..Len(inst.items) |->
                 iter_errors(defs, sch.items[1], inst.items[i],
                             Append(path, [index |-> i - 1]))])
        ELSE <<>>)
    \* maxLength, minLength
    \o (IF inst.t = "str" /\ sch.maxLength >= 0 /\ inst.n > sch.maxLength
        THEN <<ValidationError(path, "maxLength", <<>>)>> ELSE <<>>)
    \o (IF inst.t = "str" /\ sch.minLength >= 0 /\ inst.n < sch.minLength
        THEN <<ValidationError(path, "minLength", <<>>)>> ELSE <<>>)
    \* properties
    \o (IF inst.t = "object"
        THEN ConcatAll([i \in 1..Len(sch.properties) |->
                 IF HasKey(inst, sch.properties[i][1])
                 THEN iter_errors(defs, sch.properties[i][2],
                                  Get(inst, sch.properties[i][1]),
                                  Append(path, [key |-> sch.properties[i][1]]))
                 ELSE <<>>])
        ELSE <<>>)
    \* type
    \o (IF ~IsType(inst, sch.type)
        THEN <<ValidationError(path, "type", <<>>)>> ELSE <<>>)

(***************************************************************************)
(* The artifacts the generator writes.                                     *)
(***************************************************************************)
\* A value after yaml.safe_dump and yaml.safe_load.
DumpedAndLoaded(v) == safe_load(safe_dump(v))

RECURSIVE SortNode(_)
\* A schema after yaml.safe_dump and yaml.safe_load: every mapping sorted,
\* those of a default value included.
SortNode(sch) ==
    [sch EXCEPT
        !.properties =
            LET sorted == SortPairs(sch.properties)
            IN [i \in 1..Len(sorted) |-> <<sorted[i][1], SortNode(sorted[i][2])>>],
        !.items = [i \in 1..Len(sch.items) |-> SortNode(sch.items[i])],
        !.default = [i \in 1..Len(sch.default) |-> DumpedAndLoaded(sch.default[i])]]

\* schema_path.write_text(yaml.safe_dump(feature_model_schema.model_json_schema()))
SchemaArtifact(model) ==
    [root |-> SortNode(model.root),
     defs |-> [name \in DOMAIN model.defs |-> SortNode(model.defs[name])]]

(***************************************************************************)
(* Lines of text, for the lines that matter to extract_schema_url: a line  *)
(* is a sequence of chunks, " " is white space and every other chunk is a  *)
(* run of characters without white space.                                  *)
(***************************************************************************)
RECURSIVE Join(_)
Join(chunks) == IF chunks = <<>> THEN "" ELSE Head(chunks) \o Join(Tail(chunks))

\* The literal part of r"# yaml-language-server: \$schema=(\S+)".
SchemaPattern == <<"#", " ", "yaml-language-server:", " ", "$schema=">>

\* The offsets at which the pattern and at least one character of \S+ match.
MatchOffsets(line) ==
    {i \in 1..Len(line) :
        /\ i + Len(SchemaPattern) <= Len(line)
        /\ SubSeq(line, i, i + Len(SchemaPattern) - 1) = SchemaPattern
        /\ line[i + Len(SchemaPattern)] # " "}

Min(S) == CHOOSE x \in S : \A y \in S : x <= y

\* match.group(1) of re.search: the leftmost match, \S+ greedy.
MatchGroup(line) ==
    LET from == Min(MatchOffsets(line)) + Len(SchemaPattern)
        to == Min({j \in from..Len(line) : j = Len(line) \/ line[j + 1] = " "})
    IN Join(SubSeq(line, from, to))

\* extract_schema_url on the text's lines: the first line that matches, or
\* None (the empty string here; \S+ never matches it).
extract_schema_url(lines) ==
    LET hits == {i \in 1..Len(lines) : MatchOffsets(lines[i]) # {}}
    IN IF hits = {} THEN "" ELSE MatchGroup(lines[Min(hits)])

(***************************************************************************)
(* validate_yaml_file, lines 79-101: load the document, validate it.       *)
(* A fetched schema is [kind |-> "schema", root, defs] or a decoded value  *)
(* that is no mapping (kind "none"), on which iter_errors raises.          *)
(***************************************************************************)
\* " -> ".join(str(p) for p in error.path) if error.path else "root"
error_path(path) ==
    IF path = <<>> THEN <<"root">>
    ELSE [i \in 1..Len(path) |->
             IF "key" \in DOMAIN path[i] THEN path[i].key
             ELSE ToString(path[i].index)]

\* One line of an error message: f"{error_path}: {error.message}".
ErrorLine(e) == [path |-> error_path(e.path), validator |-> e.validator,
                 extras |-> e.extras]

\* Lines 86-101 on decoded data: (success, error_msg); error_msg is the
\* list of its lines, the first one naming the file.
ValidateData(file, schema, data) ==
    IF schema.kind # "schema"
    THEN [success |-> FALSE,
          error_msg |-> << [head |-> "Validation failed for", file |-> file,
                            error |-> "AttributeError"] >>]
    ELSE LET errors == iter_errors(schema.defs, schema.root, data, <<>>) IN
         IF errors # <<>>
         THEN [success |-> FALSE,
               error_msg |-> << [head |-> "Validation error(s) in", file |-> file] >>
                             \o [i \in 1..Len(errors) |-> ErrorLine(errors[i])]]
         ELSE [success |-> TRUE, error_msg |-> <<>>]

(***************************************************************************)
(* Candidate documents: the default document of a kind with edits.  The    *)
(* record edits apply to the first member of the first group.              *)
(***************************************************************************)
HttpsDoc == VS("https://a.example/doc")
HttpDoc == VS("http://a.example/doc")
LongDoc == VStr("https://a.example/long", UrlMaxLength + 1)

ExtraPlaces == {"top", "group", "feature", "record"}
ValueEdits == {"?", "y", "n", "dev", "maybe", "true"}
SourceEdits == {"keep", "absent", "https", "http", "dup", "long", "text"}
Edits == [extras : SUBSET ExtraPlaces, value : ValueEdits, source : SourceEdits]
NoEdits == [extras |-> {}, value |-> "?", source |-> "keep"]

SourceValue(edit) ==
    CASE edit = "https" -> VArr(<<HttpsDoc>>)
      [] edit = "http" -> VArr(<<HttpDoc>>)
      [] edit = "dup" -> VArr(<<HttpsDoc, HttpsDoc>>)
      [] edit = "long" -> VArr(<<LongDoc>>)
      [] edit = "text" -> HttpsDoc

\* The record of the first member of the first group, edited.
EditedRecord(kind, k) ==
    VObj(<< <<"value", IF k.value = "true" THEN VBool(TRUE) ELSE VS(k.value)>> >>
         \o (IF k.source = "keep"
             THEN (IF kind = "tool" THEN << <<"source", VArr(<<>>)>> >> ELSE <<>>)
             ELSE IF k.source = "absent" THEN <<>>
             ELSE << <<"source", SourceValue(k.source)>> >>)
         \o (IF "record" \in k.extras THEN << <<"note", VS("x")>> >> ELSE <<>>))

\* A document of the kind for a well-formed catalog, edited by k.
Candidate(cat, kind, k) ==
    LET group(i) ==
            LET members == Members(cat.pairs[i][2])
            IN VObj([j \in 1..Len(members) |->
                        <<members[j][1],
                          IF i = 1 /\ j = 1 THEN EditedRecord(kind, k)
                          ELSE FeatureDefault(kind)>>]
                    \o (IF i = 1 /\ "feature" \in k.extras
                        THEN << <<"fX", FeatureDefault(kind)>> >> ELSE <<>>))
        features ==
            VObj([i \in 1..Len(cat.pairs) |-> <<cat.pairs[i][1], group(i)>>]
                 \o (IF "group" \in k.extras
                     THEN << <<"gX", VObj(<<>>)>> >> ELSE <<>>))
    IN VObj((IF kind = "use-case" THEN << <<"assumptions", VArr(<<>>)>> >> ELSE <<>>)
            \o << <<"features", features>> >>
            \o (IF "top" \in k.extras THEN << <<"extra", VS("x")>> >> ELSE <<>>))

\* Whether the catalog has a first member of a first group to edit.
HasFirstRecord(cat) ==
    Len(cat.pairs) >= 1 /\ Len(Members(cat.pairs[1][2])) >= 1

(***************************************************************************)
(* State.                                                                  *)
(***************************************************************************)
VARIABLES
    \* schema generator (cli in schema_generator.py)
    features_yaml,   \* the text of schema/features.yaml
    FEATURES,        \* the catalog loaded at import
    cli_pc,          \* position in cli()
    schema_files,    \* list type -> <<>> or <<the schema written>>
    template_files,  \* list type -> <<>> or <<the template written>>
    checked,         \* <<>> or <<the last validation against a written schema>>
    \* batch validator (main in validate-yaml-schemas.py)
    files,           \* the FILES arguments
    repo,            \* what the two globs find under the repository root
    net,             \* URL -> what the network answers for it
    pc,              \* position in main() and validate_yaml_file()
    yaml_files,      \* the documents to validate
    idx,             \* index of the document at hand
    schema_url,      \* validate_yaml_file: the URL extracted
    schema,          \* validate_yaml_file: the schema downloaded
    data,            \* validate_yaml_file: the document loaded
    cache,           \* lru_cache of download_schema, least recently used first
    errors,          \* main: the error messages collected
    outcome,         \* per document: how validate_yaml_file returned
    steps,           \* per document: the steps of validate_yaml_file taken
    requests,        \* URL -> number of requests.get calls made
    echoed,          \* the final message of main()
    exit_code,       \* -1 while running, then the exit status
    \* extract_schema_url on a text of its own
    text,            \* the lines of a document
    resolved,        \* <<>> or <<what extract_schema_url returned>>
    \* generate_tool_config in feature_list.py
    tool_args,       \* the options given and the answers to the prompts
    tool_pc,         \* position in generate_tool_config
    tool_file,       \* tools/<shortname>.yaml: <<>> or <<its content>>
    tool_exit        \* -1 while running, then the exit status

compile_vars == <<features_yaml, FEATURES, cli_pc, schema_files, template_files, checked>>
aux_vars == <<text, resolved, tool_args, tool_pc, tool_file, tool_exit>>
batch_vars == <<files, repo, net, pc, yaml_files, idx, schema_url, schema, data,
                cache, errors, outcome, steps, requests, echoed, exit_code>>
vars == <<compile_vars, batch_vars, aux_vars>>

ListTypes == <<"tool", "use-case">>

(***************************************************************************)
(* dump_feature_template.                                                  *)
(***************************************************************************)
\* The header lines that carry text; {{ ... }} are the copier placeholders.
TemplateHeader(list_type) ==
    << <<"#", " ", "SPDX-FileCopyrightText:", " ",
         list_type \o "s/", "{{", " ", "shortname", " ", "}}", "/features.yaml",
         " ", "CODEOWNERS">>,
       <<"#", " ", "SPDX-FileCopyrightText:", " ", "openmod-features", " ",
         "contributors">>,
       <<"#">>,
       <<"#", " ", "SPDX-License-Identifier:", " ", "CC-BY-4.0">>,
       <<"#", " ", "yaml-language-server:", " ", "$schema=",
         "https://raw.githubusercontent.com/open-energy-transition/openmod-features/",
         "{{", " ", "_copier_answers._commit", " ", "}}",
         "/schema/" \o list_type \o "-schema.yaml">> >>

\* feature_template_path.write_text(f"{header}\n{yaml.safe_dump(feature_dict)}")
dump_feature_template(model, list_type) ==
    [lines |-> TemplateHeader(list_type), body |-> safe_dump(model.default)]

(***************************************************************************)
(* SpecCompile: cli() of the schema generator, then documents validated    *)
(* against a schema it wrote.                                              *)
(***************************************************************************)
AuxIdle ==
    /\ text = <<>> /\ resolved = <<>>
    /\ tool_args = <<>> /\ tool_pc = "idle" /\ tool_file = <<>> /\ tool_exit = -1

BatchIdle ==
    /\ files = <<>> /\ repo = <<>> /\ net = <<>> /\ pc = "idle"
    /\ yaml_files = <<>> /\ idx = 0 /\ schema_url = "" /\ schema = <<>>
    /\ data = <<>> /\ cache = <<>> /\ errors = <<>> /\ outcome = <<>>
    /\ steps = <<>> /\ requests = <<>> /\ echoed = "" /\ exit_code = -1

InitCompile ==
    /\ features_yaml \in CatalogTexts
    /\ FEATURES = safe_load(features_yaml)
    /\ cli_pc = "tool_schema"
    /\ schema_files = [t \in {"tool", "use-case"} |-> <<>>]
    /\ template_files = [t \in {"tool", "use-case"} |-> <<>>]
    /\ checked = <<>>
    /\ BatchIdle
    /\ AuxIdle

\* dump_tool_schema / dump_use_case_schema: create_feature_model raises on a
\* malformed catalog before anything is written.
DumpSchema(list_type) ==
    /\ cli_pc = list_type \o "_schema"
    /\ LET model == DocumentModel(FEATURES, list_type) IN
       IF model.error # ""
       THEN /\ cli_pc' = "raised"
            /\ UNCHANGED schema_files
       ELSE /\ cli_pc' = list_type \o "_template"
            /\ schema_files' =
                   [schema_files EXCEPT ![list_type] = <<SchemaArtifact(model)>>]
    /\ UNCHANGED <<features_yaml, FEATURES, template_files, checked, batch_vars, aux_vars>>

\* dump_feature_template(template_dir, model(), list_type)
DumpTemplate(list_type) ==
    /\ cli_pc = list_type \o "_template"
    /\ cli_pc' = IF list_type = "tool" THEN "use-case_schema" ELSE "done"
    /\ template_files' =
           [template_files EXCEPT
               ![list_type] =
                   <<dump_feature_template(DocumentModel(FEATURES, list_type),
                                           list_type)>>]
    /\ UNCHANGED <<features_yaml, FEATURES, schema_files, checked, batch_vars, aux_vars>>

\* validate_yaml_file lines 79-101 on a document text, against a schema
\* the generator wrote.
Validate(list_type, origin, edits, body) ==
    LET sch == [kind |-> "schema",
                root |-> schema_files[list_type][1].root,
                defs |-> schema_files[list_type][1].defs]
    IN checked' =
          << [list_type |-> list_type, origin |-> origin, edits |-> edits,
              parsed |-> Decodable(body),
              result |-> IF Decodable(body)
                         THEN ValidateData("doc", sch, safe_load(body))
                         ELSE [success |-> FALSE,
                               error_msg |-> << [head |-> "Failed to parse YAML file",
                                                 file |-> "doc",
                                                 error |-> "YAMLError"] >>]] >>

\* The generated template, validated against the schema of its list type.
ValidateTemplate(list_type) ==
    /\ cli_pc = "done" /\ checked = <<>>
    /\ Validate(list_type, "template", NoEdits, template_files[list_type][1].body)
    /\ UNCHANGED <<features_yaml, FEATURES, cli_pc, schema_files, template_files, batch_vars, aux_vars>>

\* A candidate document, validated against the schema of its list type.
ValidateCandidate(list_type, k) ==
    /\ cli_pc = "done" /\ checked = <<>>
    /\ Validate(list_type, "candidate", k, safe_dump(Candidate(FEATURES, list_type, k)))
    /\ UNCHANGED <<features_yaml, FEATURES, cli_pc, schema_files, template_files, batch_vars, aux_vars>>

NextCompile ==
    \/ \E t \in {"tool", "use-case"} : DumpSchema(t)
    \/ \E t \in {"tool", "use-case"} : DumpTemplate(t)
    \/ \E t \in {"tool", "use-case"} : ValidateTemplate(t)
    \/ \E t \in {"tool", "use-case"}, k \in Edits : ValidateCandidate(t, k)

SpecCompile == InitCompile /\ [][NextCompile]_vars

(***************************************************************************)
(* Claims about the schemas and the validation against them (SpecCompile). *)
(***************************************************************************)
Checked == checked[1]
\* The violation lines of the last validation, after the line naming the file.
Entries ==
    IF checked # <<>> /\ ~Checked.result.success THEN Tail(Checked.result.error_msg)
    ELSE <<>>
EntriesAt(path, validator) ==
    {i \in 1..Len(Entries) :
        Entries[i].path = path /\ Entries[i].validator = validator}
CandidateOf(list_type) ==
    /\ checked # <<>>
    /\ Checked.origin = "candidate"
    /\ Checked.list_type = list_type
RecordPath == <<"features", GroupName(1), FeatureName(1)>>
\* Every record of a decoded document is the default record of the kind.
AllDefault(doc, kind) ==
    /\ kind = "use-case" => Get(doc, "assumptions") = VArr(<<>>)
    /\ LET fs == Get(doc, "features") IN
       \A g \in 1..Len(fs.pairs) :
          \A f \in 1..Len(fs.pairs[g][2].pairs) :
             LET rec == fs.pairs[g][2].pairs[f][2] IN
             /\ Get(rec, "value") = VS("?")
             /\ KeySet(rec) = IF kind = "tool" THEN {"value", "source"} ELSE {"value"}
             /\ kind = "tool" => Get(rec, "source") = VArr(<<>>)

\* C6 (as claimed): a tool document with three independent violations - one
\* unknown property, one disallowed enum value, one non-HTTPS URL - yields
\* exactly three entries with three distinct paths.
C6_ThreeViolationsThreeEntries ==
    (/\ CandidateOf("tool")
     /\ HasFirstRecord(FEATURES)
     /\ Cardinality(Checked.edits.extras) = 1
     /\ Checked.edits.value = "maybe"
     /\ Checked.edits.source = "http")
    => /\ Len(Entries) = 3
       /\ \A i, j \in 1..Len(Entries) : i # j => Entries[i].path # Entries[j].path

\* C7 (as claimed): both schemas are closed at every level - document, Feature
\* Set, Group Record, Feature Record: a document with an undeclared property
\* at any of these levels is reported as a violation.
C7_ClosedAtEveryLevel ==
    \A t \in {"tool", "use-case"} :
        (/\ CandidateOf(t)
         /\ \/ "top" \in Checked.edits.extras
            \/ "group" \in Checked.edits.extras
            \/ "feature" \in Checked.edits.extras /\ Len(FEATURES.pairs) >= 1
            \/ "record" \in Checked.edits.extras /\ HasFirstRecord(FEATURES))
        => /\ ~Checked.result.success
           /\ Len(Entries) >= 1

\* C8: round trip - for each variant the synthesized default document (every
\* value "?", every source list and the assumptions list empty), validated
\* against the compiled schema of the same variant, yields an empty report.
C8_DefaultDocumentValid ==
    \A t \in {"tool", "use-case"} :
        /\ template_files[t] # <<>> =>
              /\ Decodable(template_files[t][1].body)
              /\ AllDefault(safe_load(template_files[t][1].body), t)
        /\ (checked # <<>> /\ Checked.origin = "template" /\ Checked.list_type = t)
           => /\ Checked.parsed
              /\ Checked.result.success
              /\ Checked.result.error_msg = <<>>

\* C8 witness: for a catalog of two groups whose first group has a member, both
\* templates are written, each loads back to the all-default document of its
\* variant, and the template just validated came out with an empty report.
C8_Witness ==
    /\ checked # <<>> /\ Checked.origin = "template"
    /\ Checked.list_type = "use-case"
    /\ Len(FEATURES.pairs) = MaxGroups
    /\ HasFirstRecord(FEATURES)
    /\ \A t \in {"tool", "use-case"} :
          /\ template_files[t] # <<>>
          /\ AllDefault(safe_load(template_files[t][1].body), t)
    /\ Checked.parsed
    /\ Checked.result.success
    /\ Checked.result.error_msg = <<>>

\* C9: variant divergence - a use-case record is rejected when it has a source
\* key and accepts exactly the values y, n, ?; a tool record accepts a source
\* key and exactly the values y, n, dev, ?; the default tool record has value
\* and source, the default use-case record has value only.
C9_VariantDivergence ==
    /\ (CandidateOf("use-case") /\ HasFirstRecord(FEATURES)) =>
          /\ (Checked.edits.source \notin {"keep", "absent"}) =>
                /\ ~Checked.result.success
                /\ \E i \in EntriesAt(RecordPath, "additionalProperties") :
                      \E j \in 1..Len(Entries[i].extras) : Entries[i].extras[j] = "source"
          /\ (EntriesAt(RecordPath \o <<"value">>, "enum") # {})
                <=> Checked.edits.value \notin {"y", "n", "?"}
          /\ (Checked.edits.extras = {} /\ Checked.edits.source \in {"keep", "absent"})
                => (Checked.result.success <=> Checked.edits.value \in {"y", "n", "?"})
    /\ (CandidateOf("tool") /\ HasFirstRecord(FEATURES)) =>
          /\ \A i \in EntriesAt(RecordPath, "additionalProperties") :
                \A j \in 1..Len(Entries[i].extras) : Entries[i].extras[j] # "source"
          /\ (EntriesAt(RecordPath \o <<"value">>, "enum") # {})
                <=> Checked.edits.value \notin {"y", "n", "dev", "?"}
          /\ (Checked.edits.extras = {} /\ Checked.edits.source \in {"keep", "absent", "https"})
                => (Checked.result.success
                      <=> Checked.edits.value \in {"y", "n", "dev", "?"})
    /\ KeySet(FeatureDefault("tool")) = {"value", "source"}
    /\ KeySet(FeatureDefault("use-case")) = {"value"}
    /\ \A t \in {"tool", "use-case"} :
          template_files[t] # <<>> =>
             AllDefault(safe_load(template_files[t][1].body), t)

\* C9 witness: a use-case record with value dev and a source key was rejected
\* with exactly two entries, one naming the source key at the record and one
\* for the value outside the enumeration.
C9_Witness ==
    /\ CandidateOf("use-case") /\ HasFirstRecord(FEATURES)
    /\ Checked.edits = [extras |-> {}, value |-> "dev", source |-> "https"]
    /\ ~Checked.result.success
    /\ Len(Entries) = 2
    /\ EntriesAt(RecordPath, "additionalProperties") # {}
    /\ EntriesAt(RecordPath \o <<"value">>, "enum") # {}

\* C10 (as claimed): a tool feature's source holding the same URL twice is
\* rejected with a violation at that field's path.
C10_DuplicateSourceRejected ==
    (/\ CandidateOf("tool") /\ HasFirstRecord(FEATURES)
     /\ Checked.edits.source = "dup")
    => /\ ~Checked.result.success
       /\ \E i \in 1..Len(Entries) : Entries[i].path = RecordPath \o <<"source">>

\* C11 (as claimed): a tool document in which an element of a feature's
\* source uses the http scheme is reported as a violation at the path of
\* that element.
C11_NonHttpsSourceReported ==
    (/\ CandidateOf("tool") /\ HasFirstRecord(FEATURES)
     /\ Checked.edits.source = "http")
    => /\ ~Checked.result.success
       /\ \E i \in 1..Len(Entries) :
             Entries[i].path = RecordPath \o <<"source", "0">>

\* What C18 calls a malformed catalog, read off the text of features.yaml:
\* a group lacks "members" or "description", or group names or the member
\* names of a group are not unique.  This is the claim's notion; of these
\* the compiler notices the missing keys only (WellFormed).
RepeatsKey(node_pairs) ==
    \E i, j \in 1..Len(node_pairs) : i < j /\ node_pairs[i][1] = node_pairs[j][1]
NodeHasKey(node, k) ==
    \E i \in 1..Len(node.pairs) : node.pairs[i][1] = k
NodeGet(node, k) ==
    node.pairs[CHOOSE i \in 1..Len(node.pairs) : node.pairs[i][1] = k][2]
MalformedAsClaimed(catalog) ==
    \/ RepeatsKey(catalog.pairs)
    \/ \E g \in 1..Len(catalog.pairs) :
          LET group == catalog.pairs[g][2] IN
          \/ ~NodeHasKey(group, "members")
          \/ ~NodeHasKey(group, "description")
          \/ NodeHasKey(group, "members")
                /\ RepeatsKey(NodeGet(group, "members").pairs)

\* C18 (as claimed): a malformed catalog - a group without members or
\* description, or group or member names that are not unique - aborts the
\* compilation before any of the four artifacts is written.
C18_MalformedCatalogIsFatal ==
    MalformedAsClaimed(features_yaml)
    => /\ cli_pc \in {"tool_schema", "raised"}
       /\ \A t \in {"tool", "use-case"} :
             schema_files[t] = <<>> /\ template_files[t] = <<>>

\* The property names of a schema node, and its property of a name.
PropertyNames(node) == {node.properties[i][1] : i \in 1..Len(node.properties)}
Property(node, name) ==
    node.properties[CHOOSE i \in 1..Len(node.properties) :
                        node.properties[i][1] = name][2]

\* The Feature Set of a written schema: what its features property refers to.
FeatureSetOf(artifact) == artifact.defs[Property(artifact.root, "features").ref]

\* The names of a written schema: its group names, and the member names of
\* each group.
NamesOf(artifact) ==
    LET fs == FeatureSetOf(artifact) IN
    [groups |-> PropertyNames(fs),
     members |-> [g \in PropertyNames(fs) |->
                     PropertyNames(artifact.defs[Property(fs, g).ref])]]

\* C21: a schema written for a record kind has a Feature Set whose
\* properties are exactly the groups of the catalog, each referring to a
\* Group Record whose properties are exactly the members of that group,
\* each member being a record of the kind with the default instance of the
\* kind; the two schemas have the same group and member names, and the
\* catalog stays what was loaded.
C21_CompiledNames ==
    /\ FEATURES = safe_load(features_yaml)
    /\ \A t \in {"tool", "use-case"} :
          schema_files[t] # <<>>
          => LET art == schema_files[t][1]
                 fs == FeatureSetOf(art)
             IN /\ PropertyNames(fs) = KeySet(FEATURES)
                /\ Len(fs.properties) = Len(FEATURES.pairs)
                /\ \A g \in KeySet(FEATURES) :
                      LET grp == art.defs[Property(fs, g).ref]
                          declared == Get(Get(FEATURES, g), "members")
                      IN /\ PropertyNames(grp) = KeySet(declared)
                         /\ Len(grp.properties) = Len(declared.pairs)
                         /\ \A f \in KeySet(declared) :
                               /\ Property(grp, f).ref = FeatureModelName(t)
                               /\ art.defs[FeatureModelName(t)] = SortNode(FeatureModelOf(t))
                               /\ Property(grp, f).default = <<DumpedAndLoaded(FeatureDefault(t))>>
    /\ (schema_files["tool"] # <<>> /\ schema_files["use-case"] # <<>>)
          => NamesOf(schema_files["tool"][1]) = NamesOf(schema_files["use-case"][1])

\* Both schemas are written for a catalog of two groups, the first with
\* two members and the second with one.
C21_Witness ==
    /\ schema_files["tool"] # <<>> /\ schema_files["use-case"] # <<>>
    /\ Keys(FEATURES) = <<GroupName(1), GroupName(2)>>
    /\ Keys(Get(Get(FEATURES, GroupName(1)), "members"))
          = <<FeatureName(1), FeatureName(2)>>
    /\ Keys(Get(Get(FEATURES, GroupName(2)), "members")) = <<FeatureName(1)>>

(***************************************************************************)
(* Spec: the batch validator.  Documents are files of a small file system; *)
(* the schemas published on the network are those compiled from            *)
(* PublishedCatalog.                                                       *)
(***************************************************************************)
PublishedCatalog == VObj(<< <<GroupName(1), GroupInfo(1, "")>> >>)
ToolUrl == "https://h/schema/tool-schema.yaml"
UseCaseUrl == "https://h/schema/use-case-schema.yaml"
DeclLine(url) == SchemaPattern \o <<url>>
PlainLine == <<"#", " ", "features", " ", "of", " ", "a", " ", "tool">>

\* The files: whether read_text() can decode the bytes, the lines that
\* matter to extract_schema_url, and the YAML content.
DocNames ==
    {"unreadable", "noref", "noref_garbage", "tool_ok", "tool_bad",
     "tool_garbage", "uc_ok", "uc_then_tool"}
DocText(name) ==
    LET tool_ok == safe_dump(ToolDocumentModel(PublishedCatalog).default)
        uc_ok == safe_dump(UseCaseDocumentModel(PublishedCatalog).default)
        tool_bad == safe_dump(Candidate(PublishedCatalog, "tool",
                        [extras |-> {"record"}, value |-> "maybe", source |-> "keep"]))
    IN CASE name = "unreadable" ->
                [readable |-> FALSE, lines |-> <<>>, body |-> NGarbage]
         [] name = "noref" ->
                [readable |-> TRUE, lines |-> <<PlainLine>>, body |-> tool_ok]
         [] name = "noref_garbage" ->
                [readable |-> TRUE, lines |-> <<>>, body |-> NGarbage]
         [] name = "tool_ok" ->
                [readable |-> TRUE, lines |-> <<PlainLine, DeclLine(ToolUrl)>>,
                 body |-> tool_ok]
         [] name = "tool_bad" ->
                [readable |-> TRUE, lines |-> <<DeclLine(ToolUrl)>>, body |-> tool_bad]
         [] name = "tool_garbage" ->
                [readable |-> TRUE, lines |-> <<DeclLine(ToolUrl)>>, body |-> NGarbage]
         [] name = "uc_ok" ->
                [readable |-> TRUE, lines |-> <<DeclLine(UseCaseUrl)>>, body |-> uc_ok]
         [] name = "uc_then_tool" ->
                [readable |-> TRUE,
                 lines |-> <<DeclLine(UseCaseUrl), DeclLine(ToolUrl)>>,
                 body |-> uc_ok]

Urls == {extract_schema_url(DocText(d).lines) : d \in DocNames} \ {""}

\* What the network does with a request for a URL: it serves one of the
\* published schemas, fails in the transport (requests.get raises), answers
\* with an error status (raise_for_status raises), serves a body that is no
\* YAML, serves an empty body (decoded to None), or never answers.
Responses ==
    {"tool", "use-case", "transport", "status", "undecodable", "null", "silent"}

\* The batches of the model: up to MaxFiles documents.
Batches == UNION {[1..n -> DocNames] : n \in 0..MaxFiles}

\* The schema a cache entry stands for.
FetchedSchema(tag) ==
    IF tag \in {"tool", "use-case"}
    THEN LET a == SchemaArtifact(DocumentModel(PublishedCatalog, tag))
         IN [kind |-> "schema", root |-> a.root, defs |-> a.defs]
    ELSE [kind |-> "none"]

Init ==
    /\ features_yaml = safe_dump(PublishedCatalog)
    /\ FEATURES = PublishedCatalog
    /\ AuxIdle
    /\ cli_pc = "idle"
    /\ schema_files = [t \in {"tool", "use-case"} |-> <<>>]
    /\ template_files = [t \in {"tool", "use-case"} |-> <<>>]
    /\ checked = <<>>
    /\ files \in Batches
    /\ repo \in (IF files = <<>> THEN Batches ELSE {<<"noref">>})
    /\ net \in [Urls -> Responses]
    /\ pc = "main"
    /\ yaml_files = <<>> /\ idx = 0
    /\ schema_url = "" /\ schema = <<>> /\ data = <<>>
    /\ cache = <<>>
    /\ errors = <<>>
    /\ outcome = <<>> /\ steps = <<>>
    /\ requests = [u \in Urls |-> 0]
    /\ echoed = "" /\ exit_code = -1

(***************************************************************************)
(* main() and validate_yaml_file(), one step at a time.                    *)
(***************************************************************************)
yaml_file == yaml_files[idx]
Step(name) == steps' = [steps EXCEPT ![idx] = Append(@, name)]

\* The loop body without errors.append(error_msg).
Return_DropsMessage(state, success, error_msg) ==
    /\ outcome' = [outcome EXCEPT ![idx] = state]
    /\ errors' = errors
    /\ idx' = idx + 1
    /\ pc' = IF idx + 1 > Len(yaml_files) THEN "report" ELSE "extract"
    /\ schema_url' = "" /\ schema' = <<>> /\ data' = <<>>

\* validate_yaml_file returns (success, error_msg) and main's loop body
\* runs: the message is appended when success is false, and the loop moves
\* to the next document or to the report.
Return(state, success, error_msg) ==
    /\ outcome' = [outcome EXCEPT ![idx] = state]
    /\ errors' = IF success THEN errors ELSE Append(errors, error_msg)
    /\ idx' = idx + 1
    /\ pc' = IF idx + 1 > Len(yaml_files) THEN "report" ELSE "extract"
    /\ schema_url' = "" /\ schema' = <<>> /\ data' = <<>>

\* main, lines 116-128: the documents given, or else those the globs find;
\* with none, the notice and exit code 0.
Start ==
    /\ pc = "main"
    /\ LET found == IF files # <<>> THEN files ELSE repo IN
       /\ yaml_files' = found
       /\ outcome' = [i \in 1..Len(found) |-> "Pending"]
       /\ steps' = [i \in 1..Len(found) |-> <<>>]
       /\ IF found = <<>>
          THEN /\ echoed' = "No YAML files to validate"
               /\ exit_code' = 0
               /\ pc' = "exited"
               /\ idx' = 0
          ELSE /\ pc' = "extract"
               /\ idx' = 1
               /\ UNCHANGED <<echoed, exit_code>>
    /\ UNCHANGED <<aux_vars, compile_vars, files, repo, net, schema_url, schema, data,
                   cache, errors, requests>>

\* The first step with the document parsed before its reference is looked
\* for: a text that cannot be parsed fails there.
Extract_ParsesFirst ==
    /\ pc = "extract"
    /\ Step("extract")
    /\ LET doc == DocText(yaml_file)
           url == extract_schema_url(doc.lines)
       IN IF ~doc.readable
          THEN /\ pc' = "crashed"
               /\ exit_code' = 1
               /\ UNCHANGED <<outcome, errors, idx, schema_url, schema, data>>
          ELSE IF ~Decodable(doc.body)
          THEN /\ Return("ParseFailed", FALSE,
                         << [head |-> "Failed to parse YAML file", file |-> yaml_file,
                             error |-> "YAMLError"] >>)
               /\ UNCHANGED exit_code
          ELSE IF url = ""
          THEN /\ Return("ReferenceMissing", FALSE,
                         << [head |-> "No schema URL found in", file |-> yaml_file] >>)
               /\ UNCHANGED exit_code
          ELSE /\ schema_url' = url
               /\ pc' = "download"
               /\ UNCHANGED <<outcome, errors, idx, schema, data, exit_code>>
    /\ UNCHANGED <<aux_vars, compile_vars, files, repo, net, yaml_files, cache, requests, echoed>>

\* Lines 69-71: extract_schema_url reads the file outside any try, so a file
\* whose bytes read_text() cannot decode raises out of main (traceback, exit
\* status 1); without a declaration the document fails with one message.
Extract ==
    /\ pc = "extract"
    /\ Step("extract")
    /\ LET doc == DocText(yaml_file)
           url == extract_schema_url(doc.lines)
       IN IF ~doc.readable
          THEN /\ pc' = "crashed"
               /\ exit_code' = 1
               /\ UNCHANGED <<outcome, errors, idx, schema_url, schema, data>>
          ELSE IF url = ""
          THEN /\ Return("ReferenceMissing", FALSE,
                         << [head |-> "No schema URL found in", file |-> yaml_file] >>)
               /\ UNCHANGED exit_code
          ELSE /\ schema_url' = url
               /\ pc' = "download"
               /\ UNCHANGED <<outcome, errors, idx, schema, data, exit_code>>
    /\ UNCHANGED <<aux_vars, compile_vars, files, repo, net, yaml_files, cache, requests, echoed>>

\* The exception download_schema raises: requests.get, raise_for_status or
\* yaml.safe_load.
DownloadError(response) ==
    CASE response = "transport" -> "ConnectionError"
      [] response = "status" -> "HTTPError"
      [] response = "undecodable" -> "YAMLError"

\* lru_cache: the position of the URL in the cache, 0 when it is not cached.
CachePos(url) ==
    IF \E i \in 1..Len(cache) : cache[i].url = url
    THEN CHOOSE i \in 1..Len(cache) : cache[i].url = url
    ELSE 0

\* lru_cache after a miss whose call returned: the result is stored, and
\* the least recently used entry is dropped when the cache is full.
CacheStore(url, result) ==
    LET grown == Append(cache, [url |-> url, schema |-> result])
    IN IF Len(grown) > CacheMaxSize THEN Tail(grown) ELSE grown

\* lru_cache after a hit: the entry becomes the most recently used.
CacheTouch(i) ==
    SubSeq(cache, 1, i - 1) \o SubSeq(cache, i + 1, Len(cache)) \o <<cache[i]>>

\* Lines 74-77 and download_schema: a cached result is returned without a
\* request; otherwise requests.get(url) is called (with no timeout).  A call
\* that raises stores nothing in the lru_cache.
Download ==
    /\ pc = "download"
    /\ Step("download")
    /\ IF CachePos(schema_url) # 0
       THEN /\ schema' = cache[CachePos(schema_url)].schema
            /\ cache' = CacheTouch(CachePos(schema_url))
            /\ pc' = "load"
            /\ UNCHANGED <<requests, outcome, errors, idx, schema_url, data>>
       ELSE /\ requests' = [requests EXCEPT ![schema_url] = @ + 1]
            /\ IF net[schema_url] = "silent"
               THEN /\ pc' = "blocked"
                    /\ UNCHANGED <<cache, outcome, errors, idx, schema_url, schema, data>>
               ELSE IF net[schema_url] \in {"transport", "status", "undecodable"}
               THEN /\ Return("FetchFailed", FALSE,
                              << [head |-> "Failed to download schema from",
                                  url |-> schema_url,
                                  error |-> DownloadError(net[schema_url])] >>)
                    /\ UNCHANGED cache
               ELSE /\ schema' = net[schema_url]
                    /\ cache' = CacheStore(schema_url, net[schema_url])
                    /\ pc' = "load"
                    /\ UNCHANGED <<outcome, errors, idx, schema_url, data>>
    /\ UNCHANGED <<aux_vars, compile_vars, files, repo, net, yaml_files, echoed, exit_code>>

\* Lines 80-83 without the return in the except branch: the document that
\* cannot be parsed goes on to the schema check as if it were empty.
Load_NoShortCircuit ==
    /\ pc = "load"
    /\ Step("load")
    /\ LET doc == DocText(yaml_file) IN
       /\ data' = <<IF Decodable(doc.body) THEN safe_load(doc.body) ELSE VNull>>
       /\ pc' = "validate"
       /\ UNCHANGED <<outcome, errors, idx, schema_url, schema>>
    /\ UNCHANGED <<aux_vars, compile_vars, files, repo, net, yaml_files, cache, requests,
                   echoed, exit_code>>

\* Lines 80-83: yaml.safe_load(yaml_file.read_text()).
Load ==
    /\ pc = "load"
    /\ Step("load")
    /\ LET doc == DocText(yaml_file) IN
       IF ~Decodable(doc.body)
       THEN Return("ParseFailed", FALSE,
                   << [head |-> "Failed to parse YAML file", file |-> yaml_file,
                       error |-> "YAMLError"] >>)
       ELSE /\ data' = <<safe_load(doc.body)>>
            /\ pc' = "validate"
            /\ UNCHANGED <<outcome, errors, idx, schema_url, schema>>
    /\ UNCHANGED <<aux_vars, compile_vars, files, repo, net, yaml_files, cache, requests,
                   echoed, exit_code>>

\* Lines 86-101: every error of iter_errors, or the exception it raises.
ValidateStep ==
    /\ pc = "validate"
    /\ Step("validate")
    /\ LET r == ValidateData(yaml_file, FetchedSchema(schema), data[1]) IN
       Return(IF r.success THEN "Valid" ELSE "Invalid", r.success, r.error_msg)
    /\ UNCHANGED <<aux_vars, compile_vars, files, repo, net, yaml_files, cache, requests,
                   echoed, exit_code>>

\* The report with sys.exit(0) in place of sys.exit(1).
Report_ExitsZero ==
    /\ pc = "report"
    /\ pc' = "exited"
    /\ IF errors # <<>>
       THEN echoed' = "VALIDATION ERRORS" /\ exit_code' = 0
       ELSE echoed' = "validated successfully" /\ exit_code' = 0
    /\ UNCHANGED <<aux_vars, compile_vars, files, repo, net, yaml_files, idx, schema_url,
                   schema, data, cache, errors, outcome, steps, requests>>

\* main, lines 143-157: the report and the exit code.
Report ==
    /\ pc = "report"
    /\ pc' = "exited"
    /\ IF errors # <<>>
       THEN echoed' = "VALIDATION ERRORS" /\ exit_code' = 1
       ELSE echoed' = "validated successfully" /\ exit_code' = 0
    /\ UNCHANGED <<aux_vars, compile_vars, files, repo, net, yaml_files, idx, schema_url,
                   schema, data, cache, errors, outcome, steps, requests>>

Next ==
    \/ Start
    \/ Extract
    \/ Download
    \/ Load
    \/ ValidateStep
    \/ Report

Spec == Init /\ [][Next]_vars

(***************************************************************************)
(* Claims about the batch validator (Spec).                                *)
(***************************************************************************)
TerminalStates == {"ReferenceMissing", "FetchFailed", "ParseFailed", "Invalid", "Valid"}
Docs == 1..Len(yaml_files)
\* The documents validate_yaml_file has been called for.
Processed == {i \in Docs : steps[i] # <<>>}
\* The number of documents up to i that returned a failure.
FailedUpTo(i) == Cardinality({j \in 1..i : outcome[j] \in TerminalStates \ {"Valid"}})
\* The error message main collected for a document that returned a failure.
MessageOf(i) ==
    IF FailedUpTo(i) \in 1..Len(errors) THEN errors[FailedUpTo(i)] ELSE <<>>
NoReference(i) ==
    DocText(yaml_files[i]).readable /\ extract_schema_url(DocText(yaml_files[i]).lines) = ""

\* C1 (as claimed): within one batch run there is at most one network
\* retrieval per schema URL, whatever the result of the retrieval.
C1_AtMostOneRequestPerUrl ==
    \A u \in Urls : requests[u] <= 1

\* C2 (as claimed): no failure on a document escapes main as an uncaught
\* fault; when the run ends every document has its outcome and the error
\* list has one entry per failing document.
C2_NoFailureEscapes ==
    /\ pc # "crashed"
    /\ pc = "exited" =>
          /\ \A i \in Docs : outcome[i] \in TerminalStates
          /\ Len(errors) = FailedUpTo(Len(yaml_files))

\* C3 (as claimed): when the run has ended, each document that was processed
\* is in one of the five terminal states.
C3_EndsInTerminalState ==
    pc \in {"exited", "crashed"} =>
        \A i \in Processed : outcome[i] \in TerminalStates

\* C4: a document without a declaration line gets exactly one message, the
\* missing reference; no download, no load and no schema check is attempted
\* for it; the run's exit code is 1.
C4_ReferenceMissing ==
    \A i \in Processed :
        (NoReference(i) /\ (i < idx \/ pc \in {"report", "exited"})) =>
            /\ outcome[i] = "ReferenceMissing"
            /\ steps[i] = <<"extract">>
            /\ MessageOf(i) =
                   << [head |-> "No schema URL found in", file |-> yaml_files[i]] >>
            /\ (\A j \in Docs : NoReference(j)) => \A u \in DOMAIN requests : requests[u] = 0
            /\ exit_code \in {-1, 1}
            /\ pc = "exited" => exit_code = 1

\* C4 witness: a run over a valid document and one without a declaration
\* has exited.
C4_Witness ==
    /\ pc = "exited"
    /\ yaml_files = <<"tool_ok", "noref_garbage">>
    /\ outcome = <<"Valid", "ReferenceMissing">>
    /\ exit_code = 1

\* C5 (as claimed): a document that cannot be decoded gets a single violation
\* at path "root", and the schema is not consulted for it.
C5_ParseFailureAtRoot ==
    \A i \in Docs :
        outcome[i] = "ParseFailed" =>
            /\ Len(MessageOf(i)) = 1
            /\ "path" \in DOMAIN (MessageOf(i)[1])
            /\ MessageOf(i)[1].path = <<"root">>
            /\ steps[i] = <<"extract", "download", "load">>

\* C5 (amended): a document that cannot be decoded gets a single message that
\* names the file and the parse error and carries no path; no schema check
\* is run for it.
C5_ParseFailureShortCircuits ==
    \A i \in Processed :
        LET doc == DocText(yaml_files[i]) IN
        /\ (outcome[i] = "ParseFailed") <=>
              (/\ "load" \in {steps[i][j] : j \in 1..Len(steps[i])}
               /\ ~Decodable(doc.body)
               /\ (i < idx \/ pc \in {"report", "exited"}))
        /\ outcome[i] = "ParseFailed" =>
              /\ MessageOf(i) = << [head |-> "Failed to parse YAML file",
                                    file |-> yaml_files[i], error |-> "YAMLError"] >>
              /\ steps[i] = <<"extract", "download", "load">>

\* C5 witness: the run went on after a document that could not be parsed.
C5_Witness ==
    /\ pc = "exited"
    /\ yaml_files = <<"tool_garbage", "tool_ok">>
    /\ outcome = <<"ParseFailed", "Valid">>
    /\ Len(errors) = 1

\* C12: once main has ended, the exit code is 1 exactly when a processed
\* document did not reach Valid and 0 otherwise; exit code 0 comes with the
\* success message, or with the notice when no path was given and the
\* discovery found nothing; paths that are given are the only documents
\* processed, whatever the discovery would find.
C12_ExitCode ==
    /\ (pc # "main" /\ files # <<>>) => yaml_files = files
    /\ pc \in {"exited", "crashed"} =>
          /\ exit_code = (IF \E i \in Processed : outcome[i] # "Valid" THEN 1 ELSE 0)
          /\ (yaml_files = <<>>) = (files = <<>> /\ repo = <<>>)
          /\ exit_code = 0 =>
                echoed = (IF yaml_files = <<>> THEN "No YAML files to validate"
                          ELSE "validated successfully")

\* A batch of given paths with a valid and an invalid document has ended
\* with exit code 1, the discovery left aside.
C12_Witness ==
    /\ pc = "exited"
    /\ files = <<"tool_ok", "tool_bad">>
    /\ yaml_files = files /\ repo # <<>>
    /\ outcome = <<"Valid", "Invalid">>
    /\ exit_code = 1

\* The outcome of a document validated alone, under the same network;
\* Pending when validate_yaml_file does not return for it.
SoloOutcome(name) ==
    LET doc == DocText(name)
        url == extract_schema_url(doc.lines)
    IN IF ~doc.readable THEN "Pending"
       ELSE IF url = "" THEN "ReferenceMissing"
       ELSE IF net[url] = "silent" THEN "Pending"
       ELSE IF net[url] \in {"transport", "status", "undecodable"} THEN "FetchFailed"
       ELSE IF ~Decodable(doc.body) THEN "ParseFailed"
       ELSE IF ValidateData(name, FetchedSchema(net[url]), safe_load(doc.body)).success
            THEN "Valid"
       ELSE "Invalid"

\* C14 (as claimed): when the run has ended, every document of the batch
\* has the outcome it has when validated alone, whatever the other
\* documents of the batch and their order.
C14_DocumentIndependence ==
    pc \in {"exited", "crashed", "blocked"}
    => \A i \in Docs : outcome[i] = SoloOutcome(yaml_files[i])

\* C15 (as claimed): a document whose schema cannot be retrieved or decoded
\* has one "schema unavailable" error, the same for both failures, that
\* references the URL and the requesting document, and the retrieval was
\* attempted once for it.
C15_SchemaUnavailable ==
    \A i \in Docs :
        outcome[i] = "FetchFailed"
        => LET msg == MessageOf(i) IN
           /\ Len(msg) = 1
           /\ msg[1].head = "Failed to download schema from"
           /\ msg[1].url = extract_schema_url(DocText(yaml_files[i]).lines)
           /\ steps[i] = <<"extract", "download">>
           /\ "file" \in DOMAIN msg[1]
           /\ msg[1].file = yaml_files[i]

\* C16 (as claimed): no operation blocks: the run is never left waiting in
\* requests.get for an answer that does not come.
C16_NothingBlocks ==
    pc # "blocked"

\* The steps of validate_yaml_file, in the order of the code.
StepOrder == <<"extract", "download", "load", "validate">>
\* The documents validate_yaml_file has returned for.
Finished == {i \in Docs : i < idx \/ pc \in {"report", "exited"}}
\* What the network serves when the fetch succeeds.
Served == {"tool", "use-case", "null"}

\* C22: the steps of a document are taken in the order reference
\* resolution, schema fetch, document parse, schema validation, and the
\* first failing step decides: without a reference the outcome is
\* ReferenceMissing and with a failing fetch it is FetchFailed, also for a
\* text that cannot be parsed; ParseFailed comes only after a fetch that
\* succeeded, Valid and Invalid only after a parse that succeeded.
C22_FixedStepOrder ==
    \A i \in Docs :
        LET doc == DocText(yaml_files[i])
            url == extract_schema_url(doc.lines)
            n == Len(steps[i])
            fetched == url \in DOMAIN net /\ net[url] \in Served
        IN /\ n <= Len(StepOrder)
           /\ steps[i] = SubSeq(StepOrder, 1, n)
           /\ outcome[i] = "ReferenceMissing" => n = 1
           /\ outcome[i] = "FetchFailed" => n = 2
           /\ outcome[i] = "ParseFailed" => (n = 3 /\ fetched)
           /\ outcome[i] \in {"Valid", "Invalid"}
                 => (n = 4 /\ fetched /\ Decodable(doc.body))
           /\ (i \in Finished /\ url = "") => outcome[i] = "ReferenceMissing"
           /\ (i \in Finished /\ url \in DOMAIN net /\ net[url] \notin Served)
                 => outcome[i] = "FetchFailed"

\* Two documents whose text cannot be parsed have been processed: the one
\* without a reference and the one whose schema could not be fetched.
C22_Witness ==
    /\ pc = "exited"
    /\ yaml_files = <<"noref_garbage", "tool_garbage">>
    /\ net[ToolUrl] = "status"
    /\ outcome = <<"ReferenceMissing", "FetchFailed">>
    /\ steps = << <<"extract">>, <<"extract", "download">> >>

(***************************************************************************)
(* SpecResolve: extract_schema_url on a document text of its own - texts   *)
(* of up to MaxLines lines, and the documents the generators head with a   *)
(* schema declaration.                                                     *)
(***************************************************************************)
\* Largest number of lines of a text.
MaxLines == 2

\* The lines of the texts: declarations, a comment without one, a
\* declaration behind a second "#", behind content, inside a quoted string
\* value, followed by a word, without a URL, with white space after the
\* "=", and without the space after the "#".
ResolveLines ==
    {DeclLine(ToolUrl),
     DeclLine(UseCaseUrl),
     PlainLine,
     <<"#">> \o DeclLine(ToolUrl),
     <<"features:", " ">> \o DeclLine(UseCaseUrl),
     <<"note:", " ", "'">> \o DeclLine(UseCaseUrl) \o <<"'">>,
     DeclLine(ToolUrl) \o <<" ", "x">>,
     SchemaPattern,
     SchemaPattern \o <<" ", ToolUrl>>,
     <<"#">> \o Tail(Tail(DeclLine(ToolUrl)))}

Texts == UNION {[1..n -> ResolveLines] : n \in 0..MaxLines}

\* The answers copier renders a template with: the short name and the
\* commit (tag or hash) of the template.
Commits == {"v1", "0a1b2c3"}
Answers(commit) ==
    [name \in {"shortname", "_copier_answers._commit"} |->
        IF name = "shortname" THEN "testtool" ELSE commit]

RECURSIVE RenderLine(_, _)
\* The line with every {{ name }} replaced by the answer of that name.
RenderLine(line, answers) ==
    IF line = <<>> THEN <<>>
    ELSE IF /\ Len(line) >= 5
            /\ line[1] = "{{" /\ line[2] = " " /\ line[4] = " " /\ line[5] = "}}"
            /\ line[3] \in DOMAIN answers
         THEN <<answers[line[3]]>> \o RenderLine(SubSeq(line, 6, Len(line)), answers)
         ELSE <<Head(line)>> \o RenderLine(Tail(line), answers)

\* The lines of features.yaml as copier renders them from the template of
\* the list type.
RenderedTemplate(list_type, commit) ==
    LET header == TemplateHeader(list_type)
    IN [i \in 1..Len(header) |-> RenderLine(header[i], Answers(commit))]

\* header = "# yaml-language-server: $schema=../schema/schema.yaml"
ToolConfigHeader ==
    <<"#", " ", "yaml-language-server:", " ", "$schema=", "../schema/schema.yaml">>

GeneratedTexts ==
    {RenderedTemplate(t, c) : t \in {"tool", "use-case"}, c \in Commits}
    \cup {<<ToolConfigHeader>>}

CompileIdle ==
    /\ features_yaml = safe_dump(PublishedCatalog)
    /\ FEATURES = PublishedCatalog
    /\ cli_pc = "idle"
    /\ schema_files = [t \in {"tool", "use-case"} |-> <<>>]
    /\ template_files = [t \in {"tool", "use-case"} |-> <<>>]
    /\ checked = <<>>

InitResolve ==
    /\ text \in Texts \cup GeneratedTexts
    /\ resolved = <<>>
    /\ tool_args = <<>> /\ tool_pc = "idle" /\ tool_file = <<>> /\ tool_exit = -1
    /\ CompileIdle
    /\ BatchIdle

\* schema_url = extract_schema_url(yaml_file)
Resolve ==
    /\ resolved = <<>>
    /\ resolved' = <<extract_schema_url(text)>>
    /\ UNCHANGED <<text, tool_args, tool_pc, tool_file, tool_exit,
                   compile_vars, batch_vars>>

NextResolve == Resolve

SpecResolve == InitResolve /\ [][NextResolve]_vars

\* A line that is a comment with a single leading "#" declaring a schema:
\* the pattern from the start of the line, then the URL token.
IsDeclaration(line) ==
    /\ Len(line) > Len(SchemaPattern)
    /\ SubSeq(line, 1, Len(SchemaPattern)) = SchemaPattern
    /\ line[Len(SchemaPattern) + 1] # " "

\* The URL token of a declaration: the maximal run without white space
\* after "$schema=".
UrlToken(line) ==
    LET from == Len(SchemaPattern) + 1
        to == Min({j \in from..Len(line) : j = Len(line) \/ line[j + 1] = " "})
    IN Join(SubSeq(line, from, to))

\* C13 (as claimed): the resolver returns the URL token of the first line
\* that is a single-"#" comment of the form
\* "# yaml-language-server: $schema=<URL>", and NotFound exactly when the
\* text has no such line.
C13_FirstDeclaration ==
    resolved # <<>>
    => LET decl == {i \in 1..Len(text) : IsDeclaration(text[i])} IN
       resolved[1] = IF decl = {} THEN "" ELSE UrlToken(text[Min(decl)])

\* The absolute URL of the schema of a list type, at a commit.
SchemaUrl(list_type, commit) ==
    "https://raw.githubusercontent.com/open-energy-transition/openmod-features/"
    \o commit \o "/schema/" \o list_type \o "-schema.yaml"

\* C20 (as claimed): a document generated from the template of a list
\* type, and the document headed by the tool-config generator, has a
\* declaration line, and the resolver returns from it the absolute URL of
\* the schema of the list type.
C20_HeaderRoundTrip ==
    resolved # <<>>
    => /\ \A t \in {"tool", "use-case"}, c \in Commits :
             text = RenderedTemplate(t, c)
             => /\ \E i \in 1..Len(text) : IsDeclaration(text[i])
                /\ resolved[1] = SchemaUrl(t, c)
       /\ text = <<ToolConfigHeader>>
             => /\ IsDeclaration(text[1])
                /\ \E c \in Commits : resolved[1] = SchemaUrl("tool", c)

(***************************************************************************)
(* SpecTool: generate_tool_config of feature_list.py, one invocation with  *)
(* its options, the answers typed at its prompts and the file system.      *)
(***************************************************************************)
RECURSIVE Split(_, _, _)
\* str.split(" ") on the chunks of a line: one item per separator and one
\* more, empty between two separators.
Split(line, item, items) ==
    IF line = <<>> THEN Append(items, item)
    ELSE IF Head(line) = " " THEN Split(Tail(line), "", Append(items, item))
    ELSE Split(Tail(line), item \o Head(line), items)

\* value_proc=lambda x: x.replace(",", " ").split(" ")
value_proc(x) ==
    Split([i \in 1..Len(x) |-> IF x[i] = "," THEN " " ELSE x[i]], "", <<>>)

\* What is typed at the maintainers prompt.
MaintainerAnswers == {<<"a">>, <<"a", ",", " ", "b">>}

\* The invocations: the options (an empty string where click passes None),
\* the answers to the two prompts, and whether tools/<shortname>.yaml
\* exists.
ToolArgs ==
    [name : {"Tool X"},
     shortname : {"", "toolx"},
     source_code_url : {"https://a.example/src", "http://a.example/src"},
     maintainers : {<<>>, <<"a">>, <<"a", "a">>},
     docs_url : {"", "https://a.example/docs"},
     overwrite : BOOLEAN,
     exists : BOOLEAN,
     maintainers_answer : MaintainerAnswers,
     overwrite_answer : BOOLEAN]

\* The document already in tools/.
OldToolFile == [lines |-> <<PlainLine>>, body |-> NEmpty]

\* A call of create_feature_model(feature_model) with the positional
\* arguments given: Python raises TypeError when the required one is missing.
CallCreateFeatureModel(args) ==
    IF Len(args) # 1 THEN [error |-> "TypeError"]
    ELSE create_feature_model(FEATURES, args[1])

InitTool ==
    /\ tool_args \in ToolArgs
    /\ tool_pc = "start"
    /\ tool_file = (IF tool_args.exists THEN <<OldToolFile>> ELSE <<>>)
    /\ tool_exit = -1
    /\ text = <<>> /\ resolved = <<>>
    /\ CompileIdle
    /\ BatchIdle

\* generate_tool_config: maintainers are prompted for when none is given,
\* the short name defaults to the name, and create_feature_model is called
\* without its argument (line 70).  The TypeError is no ValidationError, so
\* it leaves the command with a traceback and status 1; tool_pc names the
\* exception.  Were a model returned, it would be the feature set model,
\* whose instance has no shortname for line 83.  Lines 86-101 (the
\* overwrite prompt and write_text) are never reached.
GenerateToolConfig ==
    /\ tool_pc = "start"
    /\ LET maintainers == IF tool_args.maintainers = <<>>
                          THEN value_proc(tool_args.maintainers_answer)
                          ELSE tool_args.maintainers
           shortname == IF tool_args.shortname = "" THEN tool_args.name
                        ELSE tool_args.shortname
           made == CallCreateFeatureModel(<<>>)
       IN /\ tool_args' = [tool_args EXCEPT !.maintainers = maintainers,
                                            !.shortname = shortname]
          /\ tool_pc' = IF made.error # "" THEN made.error ELSE "AttributeError"
          /\ tool_exit' = 1
          /\ UNCHANGED tool_file
    /\ UNCHANGED <<text, resolved, compile_vars, batch_vars>>

NextTool == GenerateToolConfig

SpecTool == InitTool /\ [][NextTool]_vars

\* C17 (as claimed): when the command has ended, an existing document that
\* was not forced (no flag, no affirmative answer) is unchanged and the exit
\* code is 1; when the document did not exist or the overwrite was forced,
\* the new document has been written.
C17_WrittenUnlessRefused ==
    tool_pc \notin {"idle", "start"}
    => /\ (tool_args.exists /\ ~tool_args.overwrite /\ ~tool_args.overwrite_answer)
             => (tool_exit = 1 /\ tool_file = <<OldToolFile>>)
       /\ (~tool_args.exists \/ tool_args.overwrite \/ tool_args.overwrite_answer)
             => tool_file \notin {<<>>, <<OldToolFile>>}

\* The fields of the tool document container.
ContainerFields ==
    {"name", "shortname", "source_code", "docs", "maintainers", "features"}

\* C19 (as claimed): the compiled tool document type declares name,
\* shortname, source_code, docs and maintainers beside features, and the
\* command given an empty or repeating maintainers list or a source URL
\* that is not HTTPS ends with a validation error.
C19_ToolContainer ==
    tool_pc \notin {"idle", "start"}
    => /\ LET root == ToolDocumentModel(FEATURES).root IN
          ContainerFields \subseteq
              {root.properties[i][1] : i \in 1..Len(root.properties)}
       /\ (\/ tool_args.maintainers = <<>>
           \/ tool_args.maintainers = <<"a", "a">>
           \/ tool_args.source_code_url = "http://a.example/src")
             => tool_pc = "ValidationError"

====
